---- MODULE Spec2Model ----
(***************************************************************************)
(* A model of rld_to_mssql: the schema reconciler (create_alter_mssql_table)*)
(* and the incremental insert (insert_data_msssql) of db_manager.py, acting *)
(* on a relational store, and the Dagster assets of assets.py that drive    *)
(* them and keep the DuckDB ledger of processed files.                      *)
(***************************************************************************)
EXTENDS Integers, Sequences, FiniteSets, Bags, TLC

VARIABLES
    db,     \* the MSSQL store: table name -> [exists, cols, pk, rows]; rows is a bag
    last,   \* the last library call: its arguments, what it returned, what it issued
    rt,     \* a caller that runs ensureSchema and upsertNew again with one batch
    pipe,   \* a run of the assets: the files, the position in the upload loop, its locals
    ledger, \* the DuckDB table decrypted_n_uploaded: the file names inserted, in order
    cc,     \* two writers inside insert_data_msssql at once: position, locals
    doc,    \* a decrypted text file and the last txt_manager call made on it
    job     \* a run of the Dagster job: the assets materialized, their outputs, the directories

vars == <<db, last, rt, pipe, ledger, cc, doc, job>>

-----------------------------------------------------------------------------
(* Bounds of the model.                                                    *)

MaxBatchRows == 2   \* rows of one batch (DataFrame) handed to the library
MaxRows == 3        \* rows a measurement table may hold before appends are cut off
MaxSensorRows == 2  \* rows the sensors table may hold before appends are cut off
MaxDocLines == 4    \* lines of a decrypted text file
MaxAttempts == 3    \* largest conv_max_att the configuration gives

-----------------------------------------------------------------------------
(* Constants of db_manager.py.                                             *)

DATA_TABLE_PK == "Timestamp"
LOGGER_TABLE_PK == "Site Number"
SENSOR_TABLE_FK == "Channel"
LOGGER_TABLE_NAME == "NRG_Loggers"
SENSOR_TABLE_NAME == "NRG_Sensors"
MSSQL_DATA_TABLE_NAME == "NRG_Tower_SN"
DF_RLD_FILE_COL == "rld_file_name"
DF_TXT_FILE_COL == "txt_file_name"

NULL == "NULL"      \* SQL NULL in a stored cell

-----------------------------------------------------------------------------
(* Column names and str.upper() on them; MSSQL compares names without case.*)

Upper(n) ==
    CASE n = "Timestamp" -> "TIMESTAMP"
      [] n = "Val1" -> "VAL1"
      [] n = "VAL1" -> "VAL1"
      [] n = "NewMetric" -> "NEWMETRIC"
      [] n = "Site Number" -> "SITE NUMBER"
      [] n = "Channel" -> "CHANNEL"
      [] n = "Height" -> "HEIGHT"
      [] n = "HEIGHT" -> "HEIGHT"
      [] n = "Units" -> "UNITS"
      [] OTHER -> n

\* sa.Column types chosen when the table is created
CreateType(dtype) ==
    CASE dtype = "int64" -> "INTEGER"
      [] dtype = "object" -> "VARCHAR(max)"
      [] dtype = "datetime64[ns]" -> "DATETIME"
      [] dtype = "float64" -> "FLOAT"
      [] OTHER -> "VARCHAR(max)"

\* column types written into the ALTER TABLE ... ADD statement
AlterType(dtype) ==
    CASE dtype = "int64" -> "SMALLINT"
      [] dtype = "object" -> "VARCHAR(512)"
      [] dtype = "datetime64[ns]" -> "DATETIME"
      [] dtype = "float64" -> "FLOAT"
      [] OTHER -> "VARCHAR(512)"

-----------------------------------------------------------------------------
(* Batches (pandas DataFrames): cols is the ordered list of                *)
(* [name, dtype], rows the ordered list of rows, a row a function from the *)
(* batch's column names to values.                                         *)

BatchNames(b) == {b.cols[i].name : i \in DOMAIN b.cols}

\* DataFrame.empty: true when either axis has length 0
BatchEmpty(b) == Len(b.cols) = 0 \/ Len(b.rows) = 0

NoTable == [exists |-> FALSE, cols |-> <<>>, pk |-> "", rows |-> EmptyBag]

TableNames(tbl) == {tbl.cols[i].name : i \in DOMAIN tbl.cols}

\* the table's column that MSSQL resolves name n to, if any
HasMatch(tcols, n) == \E i \in DOMAIN tcols : Upper(tcols[i].name) = Upper(n)
MatchOf(tcols, n) == (CHOOSE i \in DOMAIN tcols : Upper(tcols[i].name) = Upper(n))

-----------------------------------------------------------------------------
(* What the store does with the statements the library sends.              *)

\* two of the names are the same name to MSSQL
NamesClash(cols) ==
    \E i, j \in DOMAIN cols : i # j /\ Upper(cols[i].name) = Upper(cols[j].name)

\* CREATE TABLE is refused: a column named twice, or a key over VARCHAR(max)
CreateRefused(cols, pk) ==
    \/ NamesClash(cols)
    \/ \E i \in DOMAIN cols : cols[i].name = pk /\ cols[i].type = "VARCHAR(max)"

\* metadata.create_all(engine): the table as created
CreatedTable(cols, pk) ==
    [exists |-> TRUE, cols |-> cols, pk |-> pk, rows |-> EmptyBag]

\* (mutant) the ALTER statement retypes the table's columns to the new column's type
AddedColumn_Retyping(tbl, name, type) ==
    [tbl EXCEPT
        !.cols = Append([i \in DOMAIN tbl.cols |-> [name |-> tbl.cols[i].name, type |-> type]],
                        [name |-> name, type |-> type]),
        !.rows = [r \in {[n \in TableNames(tbl) \cup {name} |->
                                IF n \in TableNames(tbl) THEN old[n] ELSE NULL] :
                            old \in BagToSet(tbl.rows)} |->
                    tbl.rows[[n \in TableNames(tbl) |-> r[n]]]]]

\* (mutant) the ALTER statement is executed and never committed
AddedColumn_Uncommitted(tbl, name, type) == tbl

\* ALTER TABLE ... ADD [name] type; conn.commit(): stored rows read NULL there
AddedColumn(tbl, name, type) ==
    [tbl EXCEPT
        !.cols = Append(@, [name |-> name, type |-> type]),
        !.rows = [r \in {[n \in TableNames(tbl) \cup {name} |->
                                IF n \in TableNames(tbl) THEN old[n] ELSE NULL] :
                            old \in BagToSet(tbl.rows)} |->
                    tbl.rows[[n \in TableNames(tbl) |-> r[n]]]]]

-----------------------------------------------------------------------------
(* create_alter_mssql_table(table_name, data_to_insert, pk_column, pk_flag) *)
(* failAt numbers the store call of this invocation that raises (0: none):  *)
(* 1 has_table, 2 create_all or reflect, 3 pymssql.connect, 4.. the ALTERs. *)

\* mssql_cols: one sa.Column per DataFrame column, the key marked by the caller
CreateCols(b) ==
    [i \in DOMAIN b.cols |->
        [name |-> b.cols[i].name, type |-> CreateType(b.cols[i].dtype)]]

\* (mutant) the column names are compared as spelled, without .str.upper()
NewColumns_CaseSensitive(b, tbl) ==
    SelectSeq(b.cols, LAMBDA c : c.name \notin TableNames(tbl))

\* lj_col_names: the batch columns with no table column of the same upper-case name
NewColumns(b, tbl) ==
    SelectSeq(b.cols, LAMBDA c : ~HasMatch(tbl.cols, c.name))

\* the for-loop over lj_col_names: each ALTER is committed on its own
RECURSIVE AlterLoop(_, _, _, _)
AlterLoop(tbl, news, ddl, failIdx) ==
    IF news = <<>>
    THEN [tbl |-> tbl, ddl |-> ddl, err |-> FALSE]
    ELSE LET c == Head(news)
             stmt == [op |-> "ADD", col |-> c.name, type |-> AlterType(c.dtype)]
         IN  IF failIdx = 1 \/ HasMatch(tbl.cols, c.name)
             THEN [tbl |-> tbl,
                   ddl |-> Append(ddl, [stmt |-> stmt, done |-> FALSE]),
                   err |-> TRUE]
             ELSE AlterLoop(AddedColumn(tbl, c.name, AlterType(c.dtype)),
                            Tail(news),
                            Append(ddl, [stmt |-> stmt, done |-> TRUE]),
                            failIdx - 1)

\* (mutant) the table is created whether or not the batch has the key column
CreateBranch_NoKeyCheck(tbl, b, pk_column, pk_flag, failAt) ==
    LET pk == IF pk_flag /\ pk_column \in BatchNames(b) THEN pk_column ELSE ""
        stmt == [op |-> "CREATE", col |-> pk, type |-> ""]
    IN  IF failAt = 2 \/ CreateRefused(CreateCols(b), pk)
        THEN [tbl |-> tbl, ok |-> FALSE, err |-> TRUE,
              ddl |-> <<[stmt |-> stmt, done |-> FALSE]>>, open |-> {"engine119"}]
        ELSE [tbl |-> CreatedTable(CreateCols(b), pk), ok |-> TRUE, err |-> FALSE,
              ddl |-> <<[stmt |-> stmt, done |-> TRUE]>>, open |-> {}]

\* the branch taken when the table does not exist (lines 117-166)
CreateBranch(tbl, b, pk_column, pk_flag, failAt) ==
    LET inBatch == pk_column \in BatchNames(b)
        pk == IF pk_flag THEN pk_column ELSE ""
        stmt == [op |-> "CREATE", col |-> pk, type |-> ""]
    IN  IF inBatch
        THEN IF failAt = 2 \/ CreateRefused(CreateCols(b), pk)
             THEN [tbl |-> tbl, ok |-> FALSE, err |-> TRUE,
                   ddl |-> <<[stmt |-> stmt, done |-> FALSE]>>,
                   open |-> {"engine119"}]
             ELSE [tbl |-> CreatedTable(CreateCols(b), pk), ok |-> TRUE, err |-> FALSE,
                   ddl |-> <<[stmt |-> stmt, done |-> TRUE]>>,
                   open |-> {}]
        ELSE [tbl |-> tbl, ok |-> FALSE, err |-> FALSE, ddl |-> <<>>, open |-> {}]

\* the branch taken when the table exists (lines 167-227)
AlterBranch(tbl, b, failAt) ==
    IF failAt = 2
    THEN [tbl |-> tbl, ok |-> FALSE, err |-> TRUE, ddl |-> <<>>, open |-> {"engine175"}]
    ELSE LET news == NewColumns(b, tbl)
         IN  IF Len(news) > 0
             THEN IF failAt = 3
                  THEN [tbl |-> tbl, ok |-> FALSE, err |-> TRUE, ddl |-> <<>>,
                        open |-> {"engine175"}]
                  ELSE LET r == AlterLoop(tbl, news, <<>>, failAt - 3)
                       IN  [tbl |-> r.tbl, ok |-> ~r.err, err |-> r.err, ddl |-> r.ddl,
                            open |-> IF r.err THEN {"engine175", "conn200"}
                                              ELSE {"engine175"}]
             ELSE [tbl |-> tbl, ok |-> TRUE, err |-> FALSE, ddl |-> <<>>,
                   open |-> {"engine175"}]

\* (mutant) the DataFrame is not tested for emptiness
create_alter_mssql_table_NoEmptyTest(tbl, b, pk_column, pk_flag, failAt) ==
    IF failAt = 1
    THEN [tbl |-> tbl, ok |-> FALSE, err |-> TRUE, ddl |-> <<>>, open |-> {"engine108"}]
    ELSE IF ~tbl.exists
         THEN CreateBranch(tbl, b, pk_column, pk_flag, failAt)
         ELSE AlterBranch(tbl, b, failAt)

create_alter_mssql_table(tbl, b, pk_column, pk_flag, failAt) ==
    IF failAt = 1
    THEN [tbl |-> tbl, ok |-> FALSE, err |-> TRUE, ddl |-> <<>>, open |-> {"engine108"}]
    ELSE IF ~BatchEmpty(b)
         THEN IF ~tbl.exists
              THEN CreateBranch(tbl, b, pk_column, pk_flag, failAt)
              ELSE AlterBranch(tbl, b, failAt)
         ELSE [tbl |-> tbl, ok |-> FALSE, err |-> FALSE, ddl |-> <<>>, open |-> {}]

-----------------------------------------------------------------------------
(* insert_data_msssql(table_name, data_to_insert, pk_column, pk_value,      *)
(* fk_column). failAt numbers the store call that raises (0: none):         *)
(* 1 read_sql, 2 to_sql.                                                    *)

\* the number MSSQL reads in a string of digits (the unquoted pk_value, and the
\* VARCHAR key column it is compared with, are both converted to int)
Num(v) ==
    CASE v = "42" -> 42
      [] v = "042" -> 42
      [] v = "7" -> 7
      [] OTHER -> -1

IsNumeric(v) == Num(v) >= 0

\* SELECT [column] FROM table [WHERE [pk_column] = pk_value] is refused
SelectRefused(tbl, pk_column, pk_value, fk_column) ==
    \/ ~tbl.exists
    \/ ~HasMatch(tbl.cols, pk_column)
    \/ /\ fk_column # ""
       /\ \/ ~HasMatch(tbl.cols, fk_column)
          \/ ~IsNumeric(pk_value)
          \/ \E r \in BagToSet(tbl.rows) :
                LET v == r[tbl.cols[MatchOf(tbl.cols, pk_column)].name]
                IN  v # NULL /\ ~IsNumeric(v)

\* existing_tms: the values read_sql returns, under the table's own column name
\* (mutant) the SELECT reads no row
ExistingKeys_NoneRead(tbl, pk_column, pk_value, fk_column) == {}

ExistingKeys(tbl, pk_column, pk_value, fk_column) ==
    IF fk_column = ""
    THEN LET kc == tbl.cols[MatchOf(tbl.cols, pk_column)].name
         IN  {r[kc] : r \in BagToSet(tbl.rows)}
    ELSE LET kc == tbl.cols[MatchOf(tbl.cols, pk_column)].name
             fc == tbl.cols[MatchOf(tbl.cols, fk_column)].name
         IN  {r[fc] : r \in {q \in BagToSet(tbl.rows) :
                                /\ q[kc] # NULL
                                /\ Num(q[kc]) = Num(pk_value)}}

\* (mutant) the merge keeps every batch row, matched or not
NewRecords_KeepAll(b, joinCol, existing) == b.rows

\* new_records: the left_only rows of the merge, the batch's columns kept
NewRecords(b, joinCol, existing) ==
    SelectSeq(b.rows, LAMBDA r : r[joinCol] \notin existing)

\* the rows of a list, as the bag a table holds
SeqToBag(seq) ==
    [r \in {seq[i] : i \in DOMAIN seq} |-> Cardinality({i \in DOMAIN seq : seq[i] = r})]

\* the stored form of a batch row: each table column takes the value of the batch
\* column MSSQL resolves to it, NULL when the batch has none
StoredRow(tbl, b, r) ==
    [n \in TableNames(tbl) |->
        IF \E m \in BatchNames(b) : Upper(m) = Upper(n)
        THEN r[CHOOSE m \in BatchNames(b) : Upper(m) = Upper(n)]
        ELSE NULL]

\* to_sql(if_exists='append') is refused: a batch column the table lacks or names
\* twice, or a primary key that would be NULL or held twice
AppendRefused(tbl, b, rows) ==
    \/ \E i \in DOMAIN b.cols : ~HasMatch(tbl.cols, b.cols[i].name)
    \/ NamesClash(b.cols)
    \/ /\ tbl.pk # ""
       /\ LET new == [i \in DOMAIN rows |-> StoredRow(tbl, b, rows[i])[tbl.pk]]
          IN  \/ \E i \in DOMAIN new : new[i] = NULL
              \/ \E i, j \in DOMAIN new : i # j /\ new[i] = new[j]
              \/ \E i \in DOMAIN new, r \in BagToSet(tbl.rows) : new[i] = r[tbl.pk]

\* (mutant) to_sql(if_exists='replace'): the table holds the new rows alone
Appended_Replacing(tbl, b, rows) ==
    [tbl EXCEPT !.rows = SeqToBag([i \in DOMAIN rows |-> StoredRow(tbl, b, rows[i])])]

\* (mutant) the store keeps one copy of a row however often it is appended
Appended_OnceEach(tbl, b, rows) ==
    [tbl EXCEPT !.rows = SetToBag(BagToSet(@) \cup
                            {StoredRow(tbl, b, rows[i]) : i \in DOMAIN rows})]

\* to_sql(if_exists='append'): the rows go to the end of the table, in one transaction
Appended(tbl, b, rows) ==
    [tbl EXCEPT !.rows = @ (+) SeqToBag([i \in DOMAIN rows |-> StoredRow(tbl, b, rows[i])])]

insert_data_msssql(tbl, b, pk_column, pk_value, fk_column, failAt) ==
    LET joinCol == IF fk_column = "" THEN pk_column ELSE fk_column
        raised == [tbl |-> tbl, ret |-> 0, none |-> TRUE, err |-> TRUE,
                   open |-> {"engine265"}]
    IN  IF \/ failAt = 1
           \/ SelectRefused(tbl, pk_column, pk_value, fk_column)
           \* pd.read_sql(...)[column]: KeyError unless the table spells it the same
           \/ tbl.cols[MatchOf(tbl.cols, joinCol)].name # joinCol
           \* pd.merge(..., on=column): KeyError unless the batch has the column
           \/ joinCol \notin BatchNames(b)
        THEN raised
        ELSE LET new_records ==
                    NewRecords(b, joinCol, ExistingKeys(tbl, pk_column, pk_value, fk_column))
             IN  IF Len(new_records) > 0
                 THEN IF failAt = 2 \/ AppendRefused(tbl, b, new_records)
                      THEN raised
                      ELSE [tbl |-> Appended(tbl, b, new_records),
                            ret |-> Len(new_records), none |-> FALSE, err |-> FALSE,
                            open |-> {}]
                 ELSE [tbl |-> tbl, ret |-> -1, none |-> FALSE, err |-> FALSE,
                       open |-> {}]

-----------------------------------------------------------------------------
(* The batches the library is called with: measurement tables as            *)
(* get_dataframe_txt builds them, keyed by Timestamp.                       *)

DataTable == "NRG_Tower_SN_42"

AllTables == {DataTable, LOGGER_TABLE_NAME, SENSOR_TABLE_NAME}

TsCol == [name |-> "Timestamp", dtype |-> "datetime64[ns]"]
Val1Col == [name |-> "Val1", dtype |-> "int64"]
VAL1Col == [name |-> "VAL1", dtype |-> "int64"]
NewMetricCol == [name |-> "NewMetric", dtype |-> "float64"]

DataShapes ==
    { <<TsCol, Val1Col>>,
      <<TsCol, VAL1Col>>,
      <<TsCol, Val1Col, NewMetricCol>>,
      <<NewMetricCol, TsCol>>,
      <<Val1Col>> }

TsVals == {"t1", "t2"}
PayVals == {"10", "20"}

ShapeNames(shape) == {shape[i].name : i \in DOMAIN shape}

\* the rows a batch of this shape may hold: every cell but the key carries pay
ShapeRows(shape, key, keyVals, pay) ==
    IF key \in ShapeNames(shape)
    THEN {[n \in ShapeNames(shape) |-> IF n = key THEN k ELSE pay] : k \in keyVals}
    ELSE {[n \in ShapeNames(shape) |-> pay]}

RowSeqs(S) == UNION {[1..m -> S] : m \in 0..MaxBatchRows}

BatchesOf(shapes, key, keyVals) ==
    {[cols |-> <<>>, rows |-> <<>>]} \cup
    UNION {{[cols |-> shape, rows |-> rs] :
                rs \in UNION {RowSeqs(ShapeRows(shape, key, keyVals, pay)) : pay \in PayVals}} :
           shape \in shapes}

DataBatches == BatchesOf(DataShapes, DATA_TABLE_PK, TsVals)

\* sensor batches as logger_n_sensor_register builds them: the channel's parameters,
\* all text, with the site number added last; the rows of a batch are of one site
ChannelCol == [name |-> "Channel", dtype |-> "object"]
HeightCol == [name |-> "Height", dtype |-> "object"]
SiteCol == [name |-> "Site Number", dtype |-> "object"]

SensorShapes ==
    { <<ChannelCol, HeightCol, SiteCol>>,
      <<ChannelCol, SiteCol>> }

SiteVals == {"42", "042", "7"}
ChanVals == {"1", "2"}

SensorRows(shape, site) ==
    {[n \in ShapeNames(shape) |->
        IF n = LOGGER_TABLE_PK THEN site ELSE IF n = SENSOR_TABLE_FK THEN c ELSE "10"] :
     c \in ChanVals}

SensorBatches ==
    {[cols |-> <<>>, rows |-> <<>>]} \cup
    UNION {{[cols |-> shape, rows |-> rs] :
                rs \in UNION {RowSeqs(SensorRows(shape, site)) : site \in SiteVals}} :
           shape \in SensorShapes}

\* ensureSchema reads the batch's columns and whether it is empty, not its rows
SchemaBatches(batches) == {b \in batches : Len(b.rows) <= 1}

-----------------------------------------------------------------------------
(* The library called by a single writer, one call at a time.               *)

EmptyBatch == [cols |-> <<>>, rows |-> <<>>]

NoCall ==
    [op |-> "none", table |-> "", batch |-> EmptyBatch,
     pk_column |-> "", pk_flag |-> FALSE, pk_value |-> "", fk_column |-> "",
     ok |-> FALSE, ret |-> 0, none |-> FALSE, err |-> FALSE,
     ddl |-> <<>>, open |-> {}, exit |-> ""]

NoRT == [on |-> FALSE, batch |-> EmptyBatch, pk_flag |-> FALSE, calls |-> <<>>]

FileNames == {"a.rld", "b.rld"}

Unbound == [bound |-> FALSE, none |-> FALSE, val |-> 0]

NoRun(content) ==
    [content |-> content, pc |-> "idle", todo |-> <<>>, rows_ins |-> Unbound,
     files_duckdb |-> <<>>, outcome |-> [f \in FileNames |-> "none"], calls |-> <<>>]

Writers == {"w1", "w2"}

NoWriters ==
    [w \in Writers |-> [pc |-> "idle", batch |-> EmptyBatch, existing_tms |-> {},
                        ret |-> 0, none |-> FALSE]]

NoRes == [kind |-> "none", found |-> [row_num |-> 0, param_value |-> <<>>],
          frame |-> <<>>, channels |-> <<>>]

NoDoc == [lines |-> <<>>, op |-> "none", arg |-> <<>>, param_line |-> 0, skip_rows |-> 0,
          res |-> NoRes]

\* the assets of the job, and for each the assets it is declared to come after
Assets ==
    {"raw_dir_files", "uploaded_to_mssql_files", "not_uploaded_files", "copy_to_decrypt_dir",
     "convert_rld_to_txt", "nrg_files_n_tables", "upload_data_to_mmsql",
     "logger_n_sensor_register", "save_rld_files"}

Deps ==
    [a \in Assets |->
        CASE a = "raw_dir_files" -> {}
          [] a = "uploaded_to_mssql_files" -> {}
          [] a = "not_uploaded_files" -> {"raw_dir_files", "uploaded_to_mssql_files"}
          [] a = "copy_to_decrypt_dir" -> {"not_uploaded_files"}
          [] a = "convert_rld_to_txt" -> {"copy_to_decrypt_dir"}
          [] a = "nrg_files_n_tables" -> {"convert_rld_to_txt"}
          [] a = "upload_data_to_mmsql" -> {"nrg_files_n_tables"}
          [] a = "logger_n_sensor_register" -> {"upload_data_to_mmsql", "nrg_files_n_tables"}
          [] a = "save_rld_files" -> {"upload_data_to_mmsql"}]

NoJob ==
    [raw_dir |-> {}, st |-> [a \in Assets |-> "todo"], order |-> <<>>, ledger0 |-> {},
     raw_dir_files |-> {}, uploaded |-> {}, not_uploaded |-> {},
     rld_dir |-> {}, txt_dir |-> {}, files_tables |-> <<>>, logger_todo |-> <<>>,
     conv |-> [pc |-> "idle", conv_max_att |-> 0, attempt |-> 0, results |-> <<>>],
     calls |-> <<>>]

Init ==
    /\ db = [t \in AllTables |-> NoTable]
    /\ last = NoCall
    /\ rt = NoRT
    /\ pipe = NoRun([f \in FileNames |-> EmptyBatch])
    /\ ledger = <<>>
    /\ cc = NoWriters
    /\ doc = NoDoc
    /\ job = NoJob

EnsureSchema(t, b, pk_column, pk_flag, failAt) ==
    LET r == create_alter_mssql_table(db[t], b, pk_column, pk_flag, failAt)
    IN  /\ last.op = "none"
        /\ db' = [db EXCEPT ![t] = r.tbl]
        /\ last' = [NoCall EXCEPT !.op = "ensureSchema", !.table = t, !.batch = b,
                        !.pk_column = pk_column, !.pk_flag = pk_flag,
                        !.ok = r.ok, !.err = r.err, !.ddl = r.ddl, !.open = r.open,
                        \* except Exception: logger.error(...); return (False)
                        !.exit = "return"]
        /\ UNCHANGED <<rt, pipe, ledger, cc, doc, job>>

RowCap(t) == IF t = SENSOR_TABLE_NAME THEN MaxSensorRows ELSE MaxRows

UpsertNew(t, b, pk_column, pk_value, fk_column, failAt) ==
    LET r == insert_data_msssql(db[t], b, pk_column, pk_value, fk_column, failAt)
    IN  /\ last.op = "none"
        /\ BagCardinality(r.tbl.rows) <= RowCap(t)
        /\ db' = [db EXCEPT ![t] = r.tbl]
        /\ last' = [NoCall EXCEPT !.op = "upsertNew", !.table = t, !.batch = b,
                        !.pk_column = pk_column, !.pk_value = pk_value,
                        !.fk_column = fk_column,
                        !.ret = r.ret, !.none = r.none, !.err = r.err, !.open = r.open,
                        \* except Exception: logger.error(...), and the function ends
                        !.exit = "return"]
        /\ UNCHANGED <<rt, pipe, ledger, cc, doc, job>>

\* the call has returned to its caller, which may call again
Return ==
    /\ last.op # "none"
    /\ last' = NoCall
    /\ UNCHANGED <<db, rt, pipe, ledger, cc, doc, job>>

\* calls on a measurement table, Mode A
DataEnsure ==
    \E b \in SchemaBatches(DataBatches), pk_flag \in BOOLEAN, failAt \in 0..5 :
        EnsureSchema(DataTable, b, DATA_TABLE_PK, pk_flag, failAt)

DataUpsert ==
    \E b \in DataBatches, failAt \in 0..2 :
        UpsertNew(DataTable, b, DATA_TABLE_PK, "", "", failAt)

Next == DataEnsure \/ DataUpsert \/ Return

Spec == Init /\ [][Next]_vars

\* calls on the sensors table: Mode A by site number, Mode B by channel within a site
SensorEnsure ==
    \E b \in SchemaBatches(SensorBatches), pk_column \in {SENSOR_TABLE_FK, LOGGER_TABLE_PK},
       pk_flag \in BOOLEAN, failAt \in 0..5 :
        EnsureSchema(SENSOR_TABLE_NAME, b, pk_column, pk_flag, failAt)

SensorUpsertA ==
    \E b \in SensorBatches, failAt \in 0..2 :
        UpsertNew(SENSOR_TABLE_NAME, b, LOGGER_TABLE_PK, "", "", failAt)

SensorUpsertB ==
    \E b \in SensorBatches, pk_value \in {"42"}, failAt \in 0..2 :
        UpsertNew(SENSOR_TABLE_NAME, b, LOGGER_TABLE_PK, pk_value, SENSOR_TABLE_FK, failAt)

NextB == SensorEnsure \/ SensorUpsertA \/ SensorUpsertB \/ Return

SpecB == Init /\ [][NextB]_vars

\* calls on a measurement table whose files gain two columns at once
AlterShapes == {<<TsCol>>, <<TsCol, Val1Col, NewMetricCol>>}
AlterBatches == SchemaBatches(BatchesOf(AlterShapes, DATA_TABLE_PK, TsVals))

AlterEnsure ==
    \E b \in AlterBatches, pk_flag \in BOOLEAN, failAt \in 0..5 :
        EnsureSchema(DataTable, b, DATA_TABLE_PK, pk_flag, failAt)

AlterUpsert ==
    \E b \in AlterBatches, failAt \in 0..2 :
        UpsertNew(DataTable, b, DATA_TABLE_PK, "", "", failAt)

NextAlter == AlterEnsure \/ AlterUpsert \/ Return

SpecAlter == Init /\ [][NextAlter]_vars

-----------------------------------------------------------------------------
(* A caller that hands one batch to the library again: create_alter_mssql_  *)
(* table, insert_data_msssql, and then the same two calls with the same     *)
(* batch, on a measurement table left in any state by earlier calls.  The   *)
(* store raises no error of its own here; it still refuses what it must.    *)

\* an earlier call on the table, of which only the effect on the store is kept
RT_SetupEnsure ==
    /\ ~rt.on
    /\ \E b \in SchemaBatches(DataBatches), pk_flag \in BOOLEAN :
          db' = [db EXCEPT ![DataTable] =
                    create_alter_mssql_table(@, b, DATA_TABLE_PK, pk_flag, 0).tbl]
    /\ UNCHANGED <<last, rt, pipe, ledger, cc, doc, job>>

RT_SetupUpsert ==
    /\ ~rt.on
    /\ \E b \in DataBatches :
          LET r == insert_data_msssql(db[DataTable], b, DATA_TABLE_PK, "", "", 0)
          IN  /\ BagCardinality(r.tbl.rows) <= MaxRows - 1
              /\ db' = [db EXCEPT ![DataTable] = r.tbl]
    /\ UNCHANGED <<last, rt, pipe, ledger, cc, doc, job>>

\* the caller has a batch in hand; pk_flag is read on the create branch alone
RT_Start ==
    /\ ~rt.on
    /\ \E b \in DataBatches, pk_flag \in (IF db[DataTable].exists THEN {TRUE} ELSE BOOLEAN) :
          rt' = [on |-> TRUE, batch |-> b, pk_flag |-> pk_flag, calls |-> <<>>]
    /\ UNCHANGED <<db, last, pipe, ledger, cc, doc, job>>

RT_Ops == [i \in DOMAIN rt.calls |-> rt.calls[i].op]

RT_EnsureSchema ==
    /\ rt.on
    /\ RT_Ops \in {<<>>, <<"ensureSchema">>, <<"ensureSchema", "upsertNew">>}
    /\ LET r == create_alter_mssql_table(db[DataTable], rt.batch, DATA_TABLE_PK, rt.pk_flag, 0)
       IN  /\ db' = [db EXCEPT ![DataTable] = r.tbl]
           /\ rt' = [rt EXCEPT !.calls = Append(@,
                        [op |-> "ensureSchema", before |-> db[DataTable], after |-> r.tbl,
                         ok |-> r.ok, ret |-> 0, none |-> FALSE, err |-> r.err,
                         ddl |-> r.ddl])]
    /\ UNCHANGED <<last, pipe, ledger, cc, doc, job>>

RT_UpsertNew ==
    /\ rt.on
    /\ RT_Ops \in {<<"ensureSchema">>, <<"ensureSchema", "upsertNew", "ensureSchema">>}
    /\ LET r == insert_data_msssql(db[DataTable], rt.batch, DATA_TABLE_PK, "", "", 0)
       IN  /\ db' = [db EXCEPT ![DataTable] = r.tbl]
           /\ rt' = [rt EXCEPT !.calls = Append(@,
                        [op |-> "upsertNew", before |-> db[DataTable], after |-> r.tbl,
                         ok |-> FALSE, ret |-> r.ret, none |-> r.none, err |-> r.err,
                         ddl |-> <<>>])]
    /\ UNCHANGED <<last, pipe, ledger, cc, doc, job>>

\* the caller is done with the batch
RT_Done ==
    /\ rt.on
    /\ RT_Ops \in {<<"ensureSchema", "ensureSchema">>,
                   <<"ensureSchema", "upsertNew", "ensureSchema", "upsertNew">>}
    /\ rt' = NoRT
    /\ UNCHANGED <<db, last, pipe, ledger, cc, doc, job>>

NextRT ==
    \/ RT_SetupEnsure \/ RT_SetupUpsert
    \/ RT_Start \/ RT_EnsureSchema \/ RT_UpsertNew \/ RT_Done

SpecRT == Init /\ [][NextRT]_vars

-----------------------------------------------------------------------------
(* The assets of assets.py that upload the measurement data of the files    *)
(* not yet in the ledger and then record the files in the ledger.           *)

\* rld_file_now = txtf_now.replace("_meas.txt", ".rld"), read the other way
TxtName(f) == IF f = "a.rld" THEN "a_meas.txt" ELSE "b_meas.txt"

\* what get_dataframe_txt makes of a text file: an empty frame, or a frame that has
\* the Timestamp column
PipeShapes == {<<TsCol, Val1Col>>, <<TsCol, Val1Col, NewMetricCol>>}
PipeContents ==
    {EmptyBatch} \cup
    UNION {{[cols |-> shape, rows |-> rs] :
                rs \in RowSeqs(ShapeRows(shape, DATA_TABLE_PK, TsVals, "10"))} :
           shape \in PipeShapes}

\* data_to_insert[DF_RLD_FILE_COL] = rld_fname; data_to_insert[DF_TXT_FILE_COL] = txt_fname
WithFileCols(data, f) ==
    [cols |-> data.cols \o <<[name |-> DF_RLD_FILE_COL, dtype |-> "object"],
                             [name |-> DF_TXT_FILE_COL, dtype |-> "object"]>>,
     rows |-> [i \in DOMAIN data.rows |->
                [n \in DOMAIN data.rows[i] \cup {DF_RLD_FILE_COL, DF_TXT_FILE_COL} |->
                    IF n = DF_RLD_FILE_COL THEN f
                    ELSE IF n = DF_TXT_FILE_COL THEN TxtName(f)
                    ELSE data.rows[i][n]]]]

InitPipe ==
    /\ db = [t \in AllTables |-> NoTable]
    /\ last = NoCall
    /\ rt = NoRT
    /\ \E content \in [FileNames -> PipeContents] : pipe = NoRun(content)
    /\ ledger = <<>>
    /\ cc = NoWriters
    /\ doc = NoDoc
    /\ job = NoJob

Ledgered == {ledger[i] : i \in DOMAIN ledger}

\* the orders in which a directory listing may give a set of files
Orders(S) ==
    {seq \in [1..Cardinality(S) -> S] : \A i, j \in DOMAIN seq : i # j => seq[i] # seq[j]}

\* a run starts: the files of the raw directory that the ledger does not hold
\* (not_uploaded_files), decrypted, converted and listed (nrg_files_n_tables)
PipeStart ==
    /\ pipe.pc = "idle"
    /\ \E todo \in Orders(FileNames \ Ledgered) :
          pipe' = [pipe EXCEPT
                      !.pc = IF todo = <<>> THEN "returned" ELSE "upload",
                      !.todo = todo,
                      !.rows_ins = Unbound,
                      !.files_duckdb = <<>>,
                      !.calls = <<>>,
                      !.outcome = [f \in FileNames |->
                                      IF f \in Ledgered THEN @[f] ELSE "pending"]]
    /\ UNCHANGED <<db, last, rt, ledger, cc, doc, job>>

\* variant: the insert is called whatever the schema call returned
UpsertCalled_Always(ct_result) == TRUE

\* if (ct_result): the insert is called when the schema call returned True
UpsertCalled(ct_result) == ct_result

\* the library calls of one turn of a loop, in order
SchemaCall(t, b, ok) == [op |-> "ensureSchema", table |-> t, batch |-> b, ok |-> ok]
InsertCall(t, b) == [op |-> "upsertNew", table |-> t, batch |-> b, ok |-> TRUE]
CallsOf(t, b, ok) ==
    <<SchemaCall(t, b, ok)>> \o (IF UpsertCalled(ok) THEN <<InsertCall(t, b)>> ELSE <<>>)

\* one turn of the loop of upload_data_to_mmsql; rows_ins keeps the value of an
\* earlier turn when this turn does not assign it, and comparing an unbound name or
\* None with 0 raises, which ends the asset with no DataFrame returned
PipeUpload ==
    /\ pipe.pc = "upload"
    /\ \E failES \in 0..3, failUP \in 0..2 :
          LET f == Head(pipe.todo)
              rest == Tail(pipe.todo)
              data == pipe.content[f]
              b == WithFileCols(data, f)
              es == create_alter_mssql_table(db[DataTable], b, DATA_TABLE_PK, TRUE, failES)
              up == insert_data_msssql(es.tbl, b, DATA_TABLE_PK, "", "", failUP)
              rows_ins == IF UpsertCalled(es.ok)
                          THEN [bound |-> TRUE, none |-> up.none, val |-> up.ret]
                          ELSE pipe.rows_ins
              raises == ~rows_ins.bound \/ rows_ins.none
          IN  IF BatchEmpty(data)
              THEN /\ failES = 0 /\ failUP = 0
                   /\ db' = db
                   /\ pipe' = [pipe EXCEPT
                                  !.todo = rest,
                                  !.files_duckdb = Append(@, f),
                                  !.outcome[f] = "nodata",
                                  !.calls = <<>>,
                                  !.pc = IF rest = <<>> THEN "returned" ELSE "upload"]
              ELSE /\ ~UpsertCalled(es.ok) => failUP = 0
                   /\ db' = [db EXCEPT ![DataTable] = IF UpsertCalled(es.ok) THEN up.tbl
                                                      ELSE es.tbl]
                   /\ pipe' = [pipe EXCEPT
                                  !.rows_ins = rows_ins,
                                  !.calls = CallsOf(DataTable, b, es.ok),
                                  !.outcome[f] = IF ~es.ok THEN "schemaFailed"
                                                 ELSE IF up.err THEN "upsertFailed"
                                                 ELSE "upserted",
                                  !.todo = IF raises THEN @ ELSE rest,
                                  !.files_duckdb = IF raises THEN @ ELSE Append(@, f),
                                  !.pc = IF raises THEN "raised"
                                         ELSE IF rest = <<>> THEN "returned" ELSE "upload"]
    /\ UNCHANGED <<last, rt, ledger, cc, doc, job>>

\* save_rld_files: one INSERT per row of the DataFrame it is given, each committed on
\* its own, until one raises; given None, iterrows raises before any INSERT
PipeSave ==
    /\ pipe.pc \in {"returned", "raised"}
    /\ \E n \in 0..Len(pipe.files_duckdb) :
          /\ pipe.pc = "raised" => n = 0
          /\ ledger' = ledger \o SubSeq(pipe.files_duckdb, 1, n)
    /\ pipe' = [pipe EXCEPT !.pc = "idle", !.todo = <<>>, !.rows_ins = Unbound,
                            !.files_duckdb = <<>>, !.calls = <<>>]
    /\ UNCHANGED <<db, last, rt, cc, doc, job>>

NextPipe == PipeStart \/ PipeUpload \/ PipeSave

SpecPipe == InitPipe /\ [][NextPipe]_vars

-----------------------------------------------------------------------------
(* Two writers in insert_data_msssql on one measurement table at the same   *)
(* time.  The SELECT of the existing keys and the to_sql append are two     *)
(* statements on the store, each atomic, with nothing holding the table     *)
(* between them.                                                            *)

CCBatches ==
    {EmptyBatch} \cup
    {[cols |-> <<TsCol, Val1Col>>, rows |-> rs] :
        rs \in RowSeqs(ShapeRows(<<TsCol, Val1Col>>, DATA_TABLE_PK, TsVals, "10"))}

\* the table is created or altered while no writer is at work
CC_Ensure ==
    /\ \A w \in Writers : cc[w].pc = "idle"
    /\ \E b \in SchemaBatches(CCBatches), pk_flag \in BOOLEAN :
          db' = [db EXCEPT ![DataTable] =
                    create_alter_mssql_table(@, b, DATA_TABLE_PK, pk_flag, 0).tbl]
    /\ UNCHANGED <<last, rt, pipe, ledger, cc, doc, job>>

\* lines 265-277: the engine and the SELECT of the key column; an error ends the call
CC_Read(w) ==
    /\ cc[w].pc = "idle"
    /\ \E b \in CCBatches :
          IF SelectRefused(db[DataTable], DATA_TABLE_PK, "", "")
          THEN cc' = [cc EXCEPT ![w] = [pc |-> "done", batch |-> b, existing_tms |-> {},
                                        ret |-> 0, none |-> TRUE]]
          ELSE cc' = [cc EXCEPT ![w] = [pc |-> "read", batch |-> b,
                                        existing_tms |-> ExistingKeys(db[DataTable],
                                                            DATA_TABLE_PK, "", ""),
                                        ret |-> 0, none |-> FALSE]]
    /\ UNCHANGED <<db, last, rt, pipe, ledger, doc, job>>

\* lines 281-305: the merge against the keys read earlier, and the to_sql append
CC_Append(w) ==
    /\ cc[w].pc = "read"
    /\ LET b == cc[w].batch
           tbl == db[DataTable]
           new_records == NewRecords(b, DATA_TABLE_PK, cc[w].existing_tms)
       IN  IF DATA_TABLE_PK \notin BatchNames(b)
           THEN /\ cc' = [cc EXCEPT ![w].pc = "done", ![w].none = TRUE]
                /\ UNCHANGED db
           ELSE IF Len(new_records) = 0
           THEN /\ cc' = [cc EXCEPT ![w].pc = "done", ![w].ret = -1]
                /\ UNCHANGED db
           ELSE IF AppendRefused(tbl, b, new_records)
           THEN /\ cc' = [cc EXCEPT ![w].pc = "done", ![w].none = TRUE]
                /\ UNCHANGED db
           ELSE /\ BagCardinality(Appended(tbl, b, new_records).rows) <= MaxRows
                /\ db' = [db EXCEPT ![DataTable] = Appended(tbl, b, new_records)]
                /\ cc' = [cc EXCEPT ![w].pc = "done", ![w].ret = Len(new_records)]
    /\ UNCHANGED <<last, rt, pipe, ledger, doc, job>>

\* both calls have returned to their callers
CC_Return ==
    /\ \A w \in Writers : cc[w].pc = "done"
    /\ cc' = NoWriters
    /\ UNCHANGED <<db, last, rt, pipe, ledger, doc, job>>

NextCC ==
    \/ CC_Ensure
    \/ \E w \in Writers : CC_Read(w)
    \/ \E w \in Writers : CC_Append(w)
    \/ CC_Return

SpecCC == Init /\ [][NextCC]_vars

-----------------------------------------------------------------------------
(* txt_manager.py: the functions that read a decrypted text file.  A string *)
(* is a sequence of characters; the characters of the model are the few     *)
(* words and signs the files of the model are written with.  A file is the  *)
(* sequence of its lines, each with its line feed, as iterating over the    *)
(* open file gives them.                                                    *)

LF == "\n"
Whitespace == {" ", "\t", "\n", "\r"}

\* needle in row_content
Contains(str, needle) ==
    \E i \in 0..(Len(str) - Len(needle)) : SubSeq(str, i + 1, i + Len(needle)) = needle

\* str.replace(old, new): every occurrence, left to right, not overlapping
RECURSIVE StrReplace(_, _, _)
StrReplace(str, old, new) ==
    IF old = <<>>
    THEN IF str = <<>> THEN new ELSE new \o <<Head(str)>> \o StrReplace(Tail(str), old, new)
    ELSE IF Len(str) < Len(old) THEN str
    ELSE IF SubSeq(str, 1, Len(old)) = old
         THEN new \o StrReplace(SubSeq(str, Len(old) + 1, Len(str)), old, new)
         ELSE <<Head(str)>> \o StrReplace(Tail(str), old, new)

\* str.strip()
RECURSIVE LStrip(_)
LStrip(str) ==
    IF str # <<>> /\ Head(str) \in Whitespace THEN LStrip(Tail(str)) ELSE str
\* variant: only the leading whitespace is removed
Strip_LeftOnly(str) == LStrip(str)
RECURSIVE RStrip(_)
RStrip(str) ==
    IF str # <<>> /\ str[Len(str)] \in Whitespace
    THEN RStrip(SubSeq(str, 1, Len(str) - 1)) ELSE str
Strip(str) == RStrip(LStrip(str))

\* str.split(':')[0]
RECURSIVE SplitFirst(_)
SplitFirst(str) ==
    IF str = <<>> \/ Head(str) = ":" THEN <<>> ELSE <<Head(str)>> \o SplitFirst(Tail(str))

\* re.sub(r'[\n\t\r]', '', str)
ReSubControl(str) == SelectSeq(str, LAMBDA c : c \notin {"\n", "\t", "\r"})

\* variant: the last row that has the string is reported
search_param_txt_LastRow(lines, seached_param) ==
    IF \E i \in DOMAIN lines : Contains(lines[i], seached_param)
    THEN LET row_num == CHOOSE i \in DOMAIN lines :
                            /\ Contains(lines[i], seached_param)
                            /\ \A j \in (i + 1)..Len(lines) : ~Contains(lines[j], seached_param)
         IN  [row_num |-> row_num,
              param_value |-> StrReplace(Strip(StrReplace(lines[row_num], seached_param, <<>>)),
                                         <<" ">>, <<"_">>)]
    ELSE [row_num |-> -1, param_value |-> <<>>]

\* search_param_txt: the first row that has the string, and the rest of that row
search_param_txt(lines, seached_param) ==
    IF \E i \in DOMAIN lines : Contains(lines[i], seached_param)
    THEN LET row_num == CHOOSE i \in DOMAIN lines :
                            /\ Contains(lines[i], seached_param)
                            /\ \A j \in 1..(i - 1) : ~Contains(lines[j], seached_param)
         IN  [row_num |-> row_num,
              param_value |-> StrReplace(Strip(StrReplace(lines[row_num], seached_param, <<>>)),
                                         <<" ">>, <<"_">>)]
    ELSE [row_num |-> -1, param_value |-> <<>>]

\* the parameter name and the value of one line of a block
ParamName(line) == Strip(SplitFirst(Strip(line)))
ParamValue(line) ==
    Strip(ReSubControl(Strip(StrReplace(line, SplitFirst(Strip(line)) \o <<":">>, <<>>))))

\* dict(zip(dict_keys, dict_vals)) over the lines read: one entry for each
\* name, holding the value of the last line that has the name
DynamicDict(lines, read) ==
    [k \in {ParamName(lines[i]) : i \in read} |->
        LET i == CHOOSE i \in read :
                     /\ ParamName(lines[i]) = k
                     /\ \A j \in read : ParamName(lines[j]) = k => j <= i
        IN  ParamValue(lines[i])]

\* variant: reading starts on the row after the start row
get_params_from_txt_AfterStart(lines, header, param_line, skip_rows) ==
    LET row_number == IF param_line = 0 THEN search_param_txt(lines, header).row_num
                      ELSE param_line
        first == row_number + skip_rows + 1
    IN  IF row_number > 0 /\ skip_rows >= 0
        THEN IF \E i \in first..Len(lines) : Strip(lines[i]) = <<>>
             THEN LET stop == CHOOSE i \in first..Len(lines) :
                                  /\ Strip(lines[i]) = <<>>
                                  /\ \A j \in first..(i - 1) : Strip(lines[j]) # <<>>
                  IN  [NoRes EXCEPT !.kind = "frame",
                                    !.frame = DynamicDict(lines, first..(stop - 1))]
             ELSE [NoRes EXCEPT !.kind = "None"]
        ELSE [NoRes EXCEPT !.kind = "empty"]

\* variant: the empty line that ends the block is read as a parameter too
get_params_from_txt_ThroughStop(lines, header, param_line, skip_rows) ==
    LET row_number == IF param_line = 0 THEN search_param_txt(lines, header).row_num
                      ELSE param_line
        first == row_number + skip_rows
    IN  IF row_number > 0 /\ skip_rows >= 0
        THEN IF \E i \in first..Len(lines) : Strip(lines[i]) = <<>>
             THEN LET stop == CHOOSE i \in first..Len(lines) :
                                  /\ Strip(lines[i]) = <<>>
                                  /\ \A j \in first..(i - 1) : Strip(lines[j]) # <<>>
                  IN  [NoRes EXCEPT !.kind = "frame",
                                    !.frame = DynamicDict(lines, first..stop)]
             ELSE [NoRes EXCEPT !.kind = "None"]
        ELSE [NoRes EXCEPT !.kind = "empty"]

\* get_params_from_txt: "frame" is the one-row frame built at the first empty
\* line, "empty" the empty frame returned when there is no header, "None" what
\* the caller gets when the file ends before an empty line
get_params_from_txt(lines, header, param_line, skip_rows) ==
    LET row_number == IF param_line = 0 THEN search_param_txt(lines, header).row_num
                      ELSE param_line
        first == row_number + skip_rows
    IN  IF row_number > 0 /\ skip_rows >= 0
        THEN IF \E i \in first..Len(lines) : Strip(lines[i]) = <<>>
             THEN LET stop == CHOOSE i \in first..Len(lines) :
                                  /\ Strip(lines[i]) = <<>>
                                  /\ \A j \in first..(i - 1) : Strip(lines[j]) # <<>>
                  IN  [NoRes EXCEPT !.kind = "frame",
                                    !.frame = DynamicDict(lines, first..(stop - 1))]
             ELSE [NoRes EXCEPT !.kind = "None"]
        ELSE [NoRes EXCEPT !.kind = "empty"]

PARAM_CHANNEL == <<"Channel">>
PARAM_CHANNEL_STOP == <<"Data">>
LOGGER_SITE_NUM == <<"Site", " ", "Number", ":">>
PARAM_SENS_HIST == <<"Sensor", " ", "History">>

\* get_sensor_channels: the rows after the header that start a channel block
IsChannelRow(row_content) ==
    Contains(row_content, PARAM_CHANNEL) /\ ~Contains(row_content, PARAM_CHANNEL_STOP)

RECURSIVE ChannelRows(_, _)
ChannelRows(lines, row_num) ==
    IF row_num > Len(lines) THEN <<>>
    ELSE (IF IsChannelRow(lines[row_num]) THEN <<row_num>> ELSE <<>>)
         \o ChannelRows(lines, row_num + 1)

\* variant: the scan starts on the header row
get_sensor_channels_FromHeader(lines, header) ==
    LET h_row == search_param_txt(lines, header)
    IN  IF h_row.row_num > 0
        THEN [NoRes EXCEPT !.kind = "list", !.channels = ChannelRows(lines, h_row.row_num)]
        ELSE [NoRes EXCEPT !.kind = "empty"]

get_sensor_channels(lines, header) ==
    LET h_row == search_param_txt(lines, header)
    IN  IF h_row.row_num > 0
        THEN [NoRes EXCEPT !.kind = "list", !.channels = ChannelRows(lines, h_row.row_num + 1)]
        ELSE [NoRes EXCEPT !.kind = "empty"]

\* the lines the files of the model are made of
TxtLines ==
    { LOGGER_SITE_NUM \o <<" ", "4", "2", LF>>,
      LOGGER_SITE_NUM \o <<" ", "7", LF>>,
      LOGGER_SITE_NUM \o <<" ", "4", "2", " ", "7", LF>>,
      PARAM_SENS_HIST \o <<LF>>,
      PARAM_CHANNEL \o <<":", " ", "2", LF>>,
      PARAM_CHANNEL \o <<" ">> \o PARAM_CHANNEL_STOP \o <<LF>>,
      <<" ", LF>>,
      <<LF>> }

TxtFiles == UNION {[1..n -> TxtLines] : n \in 0..MaxDocLines}

LOGGER_MODEL == <<"Model">>

TxtNeedles == {LOGGER_SITE_NUM, PARAM_SENS_HIST, PARAM_CHANNEL, LOGGER_MODEL}
TxtHeaders == {PARAM_SENS_HIST, PARAM_CHANNEL}

InitTxt ==
    /\ db = [t \in AllTables |-> NoTable]
    /\ last = NoCall
    /\ rt = NoRT
    /\ pipe = NoRun([f \in FileNames |-> EmptyBatch])
    /\ ledger = <<>>
    /\ cc = NoWriters
    /\ job = NoJob
    /\ \E lines \in TxtFiles : doc = [NoDoc EXCEPT !.lines = lines]

Txt_search_param ==
    /\ doc.op = "none"
    /\ \E n \in TxtNeedles :
          doc' = [doc EXCEPT !.op = "search_param_txt", !.arg = n,
                             !.res = [NoRes EXCEPT !.kind = "found",
                                                   !.found = search_param_txt(doc.lines, n)]]
    /\ UNCHANGED <<db, last, rt, pipe, ledger, cc, job>>

Txt_get_params ==
    /\ doc.op = "none"
    /\ \E pl \in 0..Len(doc.lines), sk \in 0..1 :
       \E h \in IF pl = 0 THEN TxtHeaders ELSE {PARAM_SENS_HIST} :
          doc' = [doc EXCEPT !.op = "get_params_from_txt", !.arg = h,
                             !.param_line = pl, !.skip_rows = sk,
                             !.res = get_params_from_txt(doc.lines, h, pl, sk)]
    /\ UNCHANGED <<db, last, rt, pipe, ledger, cc, job>>

Txt_get_sensor_channels ==
    /\ doc.op = "none"
    /\ \E h \in TxtHeaders :
          doc' = [doc EXCEPT !.op = "get_sensor_channels", !.arg = h,
                             !.res = get_sensor_channels(doc.lines, h)]
    /\ UNCHANGED <<db, last, rt, pipe, ledger, cc, job>>

Txt_Return ==
    /\ doc.op # "none"
    /\ doc' = [NoDoc EXCEPT !.lines = doc.lines]
    /\ UNCHANGED <<db, last, rt, pipe, ledger, cc, job>>

NextTxt == Txt_search_param \/ Txt_get_params \/ Txt_get_sensor_channels \/ Txt_Return

SpecTxt == InitTxt /\ [][NextTxt]_vars

-----------------------------------------------------------------------------
(* The job: every asset of assets.py, materialized once in each run, in any *)
(* order its declared dependencies allow.  The raw directory, the two work  *)
(* directories, the ledger and the database outlive a run.                  *)

RawNames == FileNames \cup {"notes.txt"}

EndsWithRld(f) == f \in FileNames
\* variant: every text file is taken for the text of a.rld
RldName_Fixed(t) == "a.rld"

\* txtf_now.replace("_meas.txt", ".rld")
RldName(t) == CHOOSE f \in FileNames : TxtName(f) = t

\* what the text files of the model hold as measurements
DagContents ==
    { EmptyBatch,
      [cols |-> <<TsCol, Val1Col>>,
       rows |-> <<[n \in {"Timestamp", "Val1"} |-> IF n = "Timestamp" THEN "t1" ELSE "10"]>>] }

\* the frames logger_n_sensor_register builds from a text file
LoggerFrame ==
    [cols |-> <<SiteCol, [name |-> "Model", dtype |-> "object"]>>,
     rows |-> <<[n \in {"Site Number", "Model"} |-> IF n = "Site Number" THEN "42" ELSE "10"]>>]
ChannelFrame ==
    [cols |-> <<ChannelCol, SiteCol>>,
     rows |-> <<[n \in {"Channel", "Site Number"} |-> IF n = "Channel" THEN "1" ELSE "42"]>>]

InitDag ==
    /\ db = [t \in AllTables |-> NoTable]
    /\ last = NoCall
    /\ rt = NoRT
    /\ \E content \in [FileNames -> DagContents] : pipe = NoRun(content)
    /\ ledger = <<>>
    /\ cc = NoWriters
    /\ doc = NoDoc
    /\ \E raw \in SUBSET RawNames : job = [NoJob EXCEPT !.raw_dir = raw, !.ledger0 = {}]

Ready(a) == job.st[a] = "todo" /\ \A d \in Deps[a] : job.st[d] = "done"

Materialized(j, a) == [j EXCEPT !.st[a] = "done", !.order = Append(@, a)]

\* raw_dir_files: the names of the raw directory that end with .rld
Dag_raw_dir_files ==
    /\ Ready("raw_dir_files")
    /\ job' = [Materialized(job, "raw_dir_files") EXCEPT
                  !.raw_dir_files = {f \in job.raw_dir : EndsWithRld(f)}]
    /\ UNCHANGED <<db, last, rt, pipe, ledger, cc, doc>>

\* uploaded_to_mssql_files: SELECT file_name FROM decrypted_n_uploaded
Dag_uploaded_to_mssql_files ==
    /\ Ready("uploaded_to_mssql_files")
    /\ job' = [Materialized(job, "uploaded_to_mssql_files") EXCEPT !.uploaded = Ledgered]
    /\ UNCHANGED <<db, last, rt, pipe, ledger, cc, doc>>

\* variant: the left join is returned whole
LeftOnly_Whole(raw_files, uploaded) == raw_files

\* the rows of the left join that are marked left_only
LeftOnly(raw_files, uploaded) == raw_files \ uploaded

Dag_not_uploaded_files ==
    /\ Ready("not_uploaded_files")
    /\ job' = [Materialized(job, "not_uploaded_files") EXCEPT
                  !.not_uploaded = LeftOnly(job.raw_dir_files, job.uploaded)]
    /\ UNCHANGED <<db, last, rt, pipe, ledger, cc, doc>>

\* copy_to_decrypt_dir: the work directory is emptied, then each file is copied
Dag_copy_to_decrypt_dir ==
    /\ Ready("copy_to_decrypt_dir")
    /\ job' = [Materialized(job, "copy_to_decrypt_dir") EXCEPT !.rld_dir = job.not_uploaded]
    /\ UNCHANGED <<db, last, rt, pipe, ledger, cc, doc>>

\* convert_rld_to_txt: the text directory is emptied, then the converter is run
\* on the work directory; it may give up with some or all files not converted
Dag_convert_rld_to_txt ==
    /\ Ready("convert_rld_to_txt")
    /\ \E converted \in SUBSET {f \in job.rld_dir : EndsWithRld(f)} :
          job' = [Materialized(job, "convert_rld_to_txt") EXCEPT
                     !.txt_dir = {TxtName(f) : f \in converted}]
    /\ UNCHANGED <<db, last, rt, pipe, ledger, cc, doc>>

\* nrg_files_n_tables: one row for each text file that has a site number, in the
\* order the directory is listed
Dag_nrg_files_n_tables ==
    /\ Ready("nrg_files_n_tables")
    /\ \E with_site \in SUBSET job.txt_dir :
       \E rows \in Orders({RldName(t) : t \in with_site}) :
          job' = [Materialized(job, "nrg_files_n_tables") EXCEPT !.files_tables = rows]
    /\ UNCHANGED <<db, last, rt, pipe, ledger, cc, doc>>

\* upload_data_to_mmsql: the loop over the rows is PipeUpload
Dag_upload_begin ==
    /\ Ready("upload_data_to_mmsql")
    /\ pipe' = [pipe EXCEPT
                   !.pc = IF job.files_tables = <<>> THEN "returned" ELSE "upload",
                   !.todo = job.files_tables,
                   !.rows_ins = Unbound,
                   !.files_duckdb = <<>>,
                   !.calls = <<>>,
                   !.outcome = [f \in FileNames |->
                                   IF \E i \in DOMAIN job.files_tables : job.files_tables[i] = f
                                   THEN "pending" ELSE "none"]]
    /\ job' = [job EXCEPT !.st["upload_data_to_mmsql"] = "running"]
    /\ UNCHANGED <<db, last, rt, ledger, cc, doc>>

Dag_upload_step ==
    /\ job.st["upload_data_to_mmsql"] = "running"
    /\ PipeUpload

Dag_upload_end ==
    /\ job.st["upload_data_to_mmsql"] = "running"
    /\ pipe.pc \in {"returned", "raised"}
    /\ job' = Materialized(job, "upload_data_to_mmsql")
    /\ UNCHANGED <<db, last, rt, pipe, ledger, cc, doc>>

\* save_rld_files: one INSERT per row of the frame it is given, until one raises;
\* with no frame returned by the upload nothing is inserted
Dag_save_rld_files ==
    /\ Ready("save_rld_files")
    /\ \E n \in 0..Len(pipe.files_duckdb) :
          /\ pipe.pc = "raised" => n = 0
          /\ ledger' = ledger \o SubSeq(pipe.files_duckdb, 1, n)
    /\ job' = Materialized(job, "save_rld_files")
    /\ UNCHANGED <<db, last, rt, pipe, cc, doc>>

\* logger_n_sensor_register: it is given the rows of nrg_files_n_tables; when the
\* upload returned no frame the job may not run it at all
Dag_logger_begin ==
    /\ Ready("logger_n_sensor_register")
    /\ \E rows \in {job.files_tables} \cup (IF pipe.pc = "raised" THEN {<<>>} ELSE {}) :
          job' = IF rows = <<>>
                 THEN Materialized(job, "logger_n_sensor_register")
                 ELSE [job EXCEPT !.st["logger_n_sensor_register"] = "running",
                                  !.logger_todo = rows]
    /\ UNCHANGED <<db, last, rt, pipe, ledger, cc, doc>>

\* one turn of the loop of logger_n_sensor_register: the logger of the file, then
\* its channel; a None compared with 0 raises and ends the asset
Dag_logger_step ==
    /\ job.st["logger_n_sensor_register"] = "running"
    /\ \E has_params \in BOOLEAN, failES \in 0..1, failUP \in 0..1,
          failES2 \in 0..1, failUP2 \in 0..1 :
          LET rest == Tail(job.logger_todo)
              es == create_alter_mssql_table(db[LOGGER_TABLE_NAME], LoggerFrame,
                                             LOGGER_TABLE_PK, FALSE, failES)
              up == insert_data_msssql(es.tbl, LoggerFrame, LOGGER_TABLE_PK, "", "", failUP)
              es2 == create_alter_mssql_table(db[SENSOR_TABLE_NAME], ChannelFrame,
                                              SENSOR_TABLE_FK, FALSE, failES2)
              up2 == insert_data_msssql(es2.tbl, ChannelFrame, LOGGER_TABLE_PK, "42",
                                        SENSOR_TABLE_FK, failUP2)
              called == UpsertCalled(es.ok)
              called2 == UpsertCalled(es2.ok)
              sensors == called /\ ~up.none
              raises == called /\ (up.none \/ (called2 /\ up2.none))
              calls == IF ~has_params THEN <<>>
                       ELSE CallsOf(LOGGER_TABLE_NAME, LoggerFrame, es.ok)
                            \o (IF sensors THEN CallsOf(SENSOR_TABLE_NAME, ChannelFrame, es2.ok)
                                ELSE <<>>)
          IN  /\ ~has_params => failES = 0
              /\ (~has_params \/ ~called) => (failUP = 0 /\ failES2 = 0)
              /\ (~has_params \/ ~sensors \/ ~called2) => failUP2 = 0
              /\ (has_params /\ called /\ up.none) => failES2 = 0
              /\ db' = IF ~has_params THEN db
                       ELSE [db EXCEPT
                               ![LOGGER_TABLE_NAME] = IF called THEN up.tbl ELSE es.tbl,
                               ![SENSOR_TABLE_NAME] = IF ~sensors THEN @
                                                      ELSE IF called2 THEN up2.tbl ELSE es2.tbl]
              /\ job' = IF (has_params /\ raises) \/ rest = <<>>
                        THEN [Materialized(job, "logger_n_sensor_register") EXCEPT
                                 !.logger_todo = <<>>, !.calls = calls]
                        ELSE [job EXCEPT !.logger_todo = rest, !.calls = calls]
    /\ UNCHANGED <<last, rt, pipe, ledger, cc, doc>>

\* the next scheduled run
Dag_next_run ==
    /\ \A a \in Assets : job.st[a] = "done"
    /\ job' = [job EXCEPT !.st = [a \in Assets |-> "todo"], !.order = <<>>,
                          !.ledger0 = Ledgered, !.calls = <<>>]
    /\ UNCHANGED <<db, last, rt, pipe, ledger, cc, doc>>

NextDag ==
    \/ Dag_raw_dir_files \/ Dag_uploaded_to_mssql_files \/ Dag_not_uploaded_files
    \/ Dag_copy_to_decrypt_dir \/ Dag_convert_rld_to_txt \/ Dag_nrg_files_n_tables
    \/ Dag_upload_begin \/ Dag_upload_step \/ Dag_upload_end
    \/ Dag_save_rld_files \/ Dag_logger_begin \/ Dag_logger_step \/ Dag_next_run

SpecDag == InitDag /\ [][NextDag]_vars

-----------------------------------------------------------------------------
(* convert_rld_to_txt attempt by attempt.  The converter is called on the   *)
(* whole work directory; a call either returns or raises, and either way it *)
(* may have written the text of some of the files.                          *)

InitConv ==
    /\ db = [t \in AllTables |-> NoTable]
    /\ last = NoCall
    /\ rt = NoRT
    /\ pipe = NoRun([f \in FileNames |-> EmptyBatch])
    /\ ledger = <<>>
    /\ cc = NoWriters
    /\ doc = NoDoc
    /\ \E rld \in SUBSET RawNames, txt \in SUBSET FileNames, att \in 0..MaxAttempts :
          job = [NoJob EXCEPT !.rld_dir = rld,
                              !.txt_dir = {TxtName(f) : f \in txt},
                              !.conv.conv_max_att = att]

\* variant: the loop goes on after a successful attempt
LoopEnds_NoBreak(outcome, attempt, conv_max_att) == attempt >= conv_max_att

\* for attempt in range(1, conv_max_att + 1) with break in the else branch
LoopEnds(outcome, attempt, conv_max_att) == outcome = "ok" \/ attempt >= conv_max_att

\* the text directory is emptied; the loop is entered when the work directory
\* has .rld files and range(1, conv_max_att + 1) is not empty
Conv_begin ==
    /\ job.conv.pc = "idle"
    /\ job' = [job EXCEPT
                  !.txt_dir = {},
                  !.conv.results = <<>>,
                  !.conv.attempt = IF {f \in job.rld_dir : EndsWithRld(f)} # {}
                                      /\ job.conv.conv_max_att >= 1
                                   THEN 1 ELSE 0,
                  !.conv.pc = IF {f \in job.rld_dir : EndsWithRld(f)} # {}
                                 /\ job.conv.conv_max_att >= 1
                              THEN "loop" ELSE "done"]
    /\ UNCHANGED <<db, last, rt, pipe, ledger, cc, doc>>

\* one attempt: converter.convert() returns or raises
Conv_attempt ==
    /\ job.conv.pc = "loop"
    /\ \E outcome \in {"ok", "failed"},
          written \in SUBSET {f \in job.rld_dir : EndsWithRld(f)} :
          job' = [job EXCEPT
                     !.txt_dir = @ \cup {TxtName(f) : f \in written},
                     !.conv.results = Append(@, outcome),
                     !.conv.attempt = IF LoopEnds(outcome, job.conv.attempt,
                                                  job.conv.conv_max_att)
                                      THEN @ ELSE @ + 1,
                     !.conv.pc = IF LoopEnds(outcome, job.conv.attempt,
                                             job.conv.conv_max_att)
                                 THEN "done" ELSE "loop"]
    /\ UNCHANGED <<db, last, rt, pipe, ledger, cc, doc>>

\* nrg_files_n_tables after the asset has ended: it lists the text directory
Conv_nrg_files_n_tables ==
    /\ job.conv.pc = "done"
    /\ \E with_site \in SUBSET job.txt_dir :
       \E rows \in Orders({RldName(t) : t \in with_site}) :
          job' = [job EXCEPT !.files_tables = rows, !.conv.pc = "read"]
    /\ UNCHANGED <<db, last, rt, pipe, ledger, cc, doc>>

\* the next run finds the directories as this one left them
Conv_next_run ==
    /\ job.conv.pc = "read"
    /\ job' = [job EXCEPT !.files_tables = <<>>, !.conv.pc = "idle",
                          !.conv.attempt = 0, !.conv.results = <<>>]
    /\ UNCHANGED <<db, last, rt, pipe, ledger, cc, doc>>

NextConv == Conv_begin \/ Conv_attempt \/ Conv_nrg_files_n_tables \/ Conv_next_run

SpecConv == InitConv /\ [][NextConv]_vars

-----------------------------------------------------------------------------
(* Properties.  A step of a library call is one that leaves last.op = "none" *)
(* for the operation named; the table before the call is db, after it db'.   *)

IsCall(op) == last.op = "none" /\ last'.op = op

\* the keys a table holds in its column named k
KeysHeld(tbl, k) == {r[k] : r \in BagToSet(tbl.rows)}

\* a batch row as the table should hold it: every batch column's value under the
\* table column of that name (case apart), NULL in the columns the batch lacks
AsHeld(tbl, b, r) ==
    [n \in TableNames(tbl) |->
        LET from == {i \in DOMAIN b.cols : Upper(b.cols[i].name) = Upper(n)}
        IN  IF from = {} THEN NULL ELSE r[b.cols[CHOOSE i \in from : TRUE].name]]

\* how many times row q occurs among the rows in rs, as the table should hold them
TimesHeld(tbl, b, rs, q) == Cardinality({i \in DOMAIN rs : AsHeld(tbl, b, rs[i]) = q})

\* the table's rows after the call are those before it plus exactly the rows rs
GrewBy(before, after, b, rs) ==
    /\ after.exists = before.exists /\ after.cols = before.cols /\ after.pk = before.pk
    /\ \A q \in BagToSet(after.rows) \cup BagToSet(before.rows) :
          CopiesIn(q, after.rows) = CopiesIn(q, before.rows) + TimesHeld(before, b, rs, q)

\* C3: upsertNew in Mode A, when the store raises no error, appends exactly the
\* batch rows whose key is not among the keys stored at call time, each with all
\* the batch's column values, and returns their number, or -1 when there is none.
C3_ModeA_AppendsExactlyNewKeys ==
    [][ (IsCall("upsertNew") /\ last'.fk_column = "" /\ ~last'.err) =>
        LET t == last'.table
            b == last'.batch
            k == last'.pk_column
            fresh == SelectSeq(b.rows, LAMBDA r : r[k] \notin KeysHeld(db[t], k))
        IN  /\ GrewBy(db[t], db'[t], b, fresh)
            /\ ~last'.none
            /\ last'.ret = IF Len(fresh) = 0 THEN -1 ELSE Len(fresh)
            /\ \A u \in AllTables \ {t} : db'[u] = db[u] ]_vars

\* C3 witness: a two-row batch with two different keys was upserted in Mode A and
\* the call returned 1, so one key was a duplicate and one was new.
C3_Witness ==
    /\ last.op = "upsertNew" /\ last.fk_column = "" /\ ~last.err
    /\ last.ret = 1
    /\ Len(last.batch.rows) = 2
    /\ last.batch.rows[1][last.pk_column] # last.batch.rows[2][last.pk_column]
    /\ BagCardinality(db[last.table].rows) >= 2

\* C5: a table, once it exists, exists in every later state, and every column it
\* has stays, under the same name and with the same type: ensureSchema and
\* upsertNew only add columns.
C5_SchemaOnlyGrows ==
    [][ \A t \in AllTables :
          db[t].exists =>
            /\ db'[t].exists
            /\ Len(db'[t].cols) >= Len(db[t].cols)
            /\ \A i \in DOMAIN db[t].cols : db'[t].cols[i] = db[t].cols[i] ]_vars

\* C5 witness: a table that was created with two columns has been given a third,
\* and the first two are as they were created.
C5_Witness ==
    /\ last.op = "ensureSchema" /\ last.ok
    /\ Len(last.ddl) = 1 /\ last.ddl[1].stmt.op = "ADD"
    /\ Len(db[last.table].cols) = 3
    /\ db[last.table].cols[1].type = "DATETIME"
    /\ db[last.table].cols[2].type = "INTEGER"

\* the batch columns no table column matches when case is ignored, in batch order
Unmatched(tbl, b) ==
    SelectSeq(b.cols, LAMBDA c :
        \A j \in DOMAIN tbl.cols : Upper(tbl.cols[j].name) # Upper(c.name))

\* C6: when the table exists and the batch is not empty, every statement
\* ensureSchema issues is an ADD-COLUMN of a batch column that has no
\* case-insensitive match in the table, in batch order and at most once each; the
\* columns the table had are kept as they were; and when the store raises no error
\* there is one ADD-COLUMN for each such column and the call returns true.
C6_AddsExactlyUnmatchedColumns ==
    [][ (IsCall("ensureSchema") /\ db[last'.table].exists /\ ~BatchEmpty(last'.batch)) =>
        LET t == last'.table
            want == Unmatched(db[t], last'.batch)
            ddl == last'.ddl
        IN  /\ Len(ddl) <= Len(want)
            /\ \A i \in DOMAIN ddl :
                  /\ ddl[i].stmt.op = "ADD"
                  /\ ddl[i].stmt.col = want[i].name
            /\ \A i \in DOMAIN db[t].cols : db'[t].cols[i] = db[t].cols[i]
            /\ Len(db'[t].cols) = Len(db[t].cols) + Cardinality({i \in DOMAIN ddl : ddl[i].done})
            /\ BagCardinality(db'[t].rows) = BagCardinality(db[t].rows)
            /\ ~last'.err =>
                  /\ last'.ok
                  /\ Len(ddl) = Len(want)
                  /\ \A i \in DOMAIN ddl : ddl[i].done
                  /\ \A i \in DOMAIN want :
                        db'[t].cols[Len(db[t].cols) + i].name = want[i].name ]_vars

\* C6 witness: a batch whose only new column is NewMetric met an existing table, and
\* ensureSchema issued the one ADD-COLUMN for NewMetric and returned true.
C6_Witness ==
    /\ last.op = "ensureSchema" /\ last.ok /\ ~last.err
    /\ Len(last.ddl) = 1
    /\ last.ddl[1].stmt.op = "ADD" /\ last.ddl[1].stmt.col = "NewMetric" /\ last.ddl[1].done
    /\ Len(last.batch.cols) = 3
    /\ \E i \in DOMAIN db[last.table].cols : db[last.table].cols[i].name = "NewMetric"

\* C8: when the table does not exist, the batch is not empty and the store raises
\* no error, ensureSchema creates the table with the batch's columns and returns
\* true if keyColumn is a batch column, the key being the primary key exactly when
\* keyIsPrimary is true; otherwise it creates no table and returns false.
C8_CreateNeedsKeyColumn ==
    [][ (IsCall("ensureSchema") /\ ~db[last'.table].exists /\ ~BatchEmpty(last'.batch)
            /\ ~last'.err) =>
        LET t == last'.table
            b == last'.batch
        IN  IF \E i \in DOMAIN b.cols : b.cols[i].name = last'.pk_column
            THEN /\ last'.ok
                 /\ db'[t].exists
                 /\ db'[t].pk = (IF last'.pk_flag THEN last'.pk_column ELSE "")
                 /\ Len(db'[t].cols) = Len(b.cols)
                 /\ \A i \in DOMAIN b.cols : db'[t].cols[i].name = b.cols[i].name
                 /\ Len(last'.ddl) = 1 /\ last'.ddl[1].stmt.op = "CREATE"
            ELSE /\ ~last'.ok
                 /\ db' = db
                 /\ last'.ddl = <<>> ]_vars

\* C8 witness: ensureSchema met no table and a batch without the key column, and
\* returned false without an error, leaving no table.
C8_Witness ==
    /\ last.op = "ensureSchema" /\ ~last.ok /\ ~last.err
    /\ ~BatchEmpty(last.batch)
    /\ last.pk_column \notin BatchNames(last.batch)
    /\ ~db[last.table].exists

ScopedKeysHeld(tbl, k, v, f) == {r[f] : r \in {q \in BagToSet(tbl.rows) : q[k] = v}}

\* C1: whatever an upsertNew call (Mode A or Mode B) returns, the table keeps its
\* columns and every row it held, as many times as it held it and with the same
\* values; and no row is appended whose relevant key (keyColumn in Mode A,
\* foreignKeyColumn among the rows whose keyColumn equals keyValue in Mode B) was in
\* the table when the call started.
C1_InsertOnlyKeyDeduplicated ==
    [][ IsCall("upsertNew") =>
        LET t == last'.table
            k == last'.pk_column
            f == last'.fk_column
            held == IF f = "" THEN KeysHeld(db[t], k)
                    ELSE ScopedKeysHeld(db[t], k, last'.pk_value, f)
            j == IF f = "" THEN k ELSE f
        IN  /\ db'[t].exists = db[t].exists
            /\ db'[t].cols = db[t].cols
            /\ db'[t].pk = db[t].pk
            /\ \A q \in BagToSet(db[t].rows) : CopiesIn(q, db'[t].rows) >= CopiesIn(q, db[t].rows)
            /\ \A q \in BagToSet(db'[t].rows) :
                  CopiesIn(q, db'[t].rows) > CopiesIn(q, db[t].rows) => q[j] \notin held
            /\ \A u \in AllTables \ {t} : db'[u] = db[u] ]_vars

\* C1 witness: a Mode B call with two batch rows appended one of them and left out
\* the other, whose channel the site already had.
C1_Witness ==
    /\ last.op = "upsertNew" /\ last.fk_column # "" /\ ~last.err
    /\ last.ret = 1
    /\ Len(last.batch.rows) = 2
    /\ last.batch.rows[1][last.fk_column] # last.batch.rows[2][last.fk_column]
    /\ BagCardinality(db[last.table].rows) = 2

\* C4: an upsertNew call in Mode B that raises no error appends exactly the batch
\* rows whose foreignKeyColumn value is in no stored row whose keyColumn equals
\* keyValue: a batch row is left out if and only if such a stored row has its value,
\* and a stored row of another site with the same value does not leave it out.
C4_ModeBExcludesIffHeldForKeyValue ==
    [][ (IsCall("upsertNew") /\ last'.fk_column # "" /\ ~last'.err) =>
        LET t == last'.table
            b == last'.batch
            f == last'.fk_column
            held == ScopedKeysHeld(db[t], last'.pk_column, last'.pk_value, f)
            fresh == SelectSeq(b.rows, LAMBDA r : r[f] \notin held)
        IN  GrewBy(db[t], db'[t], b, fresh) ]_vars

\* the calls of a finished double run: ensureSchema, upsertNew, ensureSchema, upsertNew
RanTwice == rt.on /\ Len(rt.calls) = 4

\* C2: when ensureSchema and then upsertNew are run twice with one batch, no call
\* fails, and the table held none of the batch's keys at the start, the first
\* upsertNew appends every row of the batch, the second appends nothing and returns
\* -1, and the table after the second run is the table after the first.
C2_SecondRunAppendsNothing ==
    (/\ RanTwice
     /\ \A i \in 1..4 : ~rt.calls[i].err
     /\ \A i \in DOMAIN rt.batch.rows :
           rt.batch.rows[i][DATA_TABLE_PK] \notin KeysHeld(rt.calls[1].before, DATA_TABLE_PK))
    => /\ GrewBy(rt.calls[2].before, rt.calls[2].after, rt.batch, rt.batch.rows)
       /\ Len(rt.batch.rows) > 0 => rt.calls[2].ret = Len(rt.batch.rows)
       /\ rt.calls[4].ret = -1 /\ ~rt.calls[4].none
       /\ rt.calls[4].after = rt.calls[2].after
       /\ db[DataTable] = rt.calls[2].after

\* C2 witness: a batch of two rows was run twice on a table that held another row;
\* the first run appended both and the second returned -1.
C2_Witness ==
    /\ RanTwice
    /\ \A i \in 1..4 : ~rt.calls[i].err
    /\ Len(rt.batch.rows) = 2
    /\ BagCardinality(rt.calls[1].before.rows) = 1
    /\ rt.calls[2].ret = 2
    /\ rt.calls[4].ret = -1
    /\ BagCardinality(db[DataTable].rows) = 3

\* the second ensureSchema call of the caller, when it has been made
SecondEnsure == IF Len(rt.calls) >= 2 /\ rt.calls[2].op = "ensureSchema" THEN 2 ELSE 3

\* C7: after an ensureSchema call that returned true (having created the table,
\* added its missing columns, or found it correct), a second call with the same
\* batch, with or without an upsertNew between the two, creates no table, adds no
\* column, leaves the table as it was and returns true.
C7_EnsureSchemaIdempotent ==
    (/\ rt.on
     /\ Len(rt.calls) >= SecondEnsure
     /\ rt.calls[1].ok)
    => LET c == rt.calls[SecondEnsure]
       IN  /\ c.op = "ensureSchema"
           /\ c.ddl = <<>>
           /\ c.after = c.before
           /\ c.ok /\ ~c.err

\* C7 witness: the first call added a column to an existing table, and the second
\* call, made right after it, issued nothing and returned true.
C7_Witness ==
    /\ rt.on
    /\ Len(rt.calls) = 2
    /\ rt.calls[2].op = "ensureSchema"
    /\ rt.calls[1].ok
    /\ Len(rt.calls[1].ddl) = 1 /\ rt.calls[1].ddl[1].stmt.op = "ADD"
    /\ rt.calls[2].ok

\* C10: the ledger only grows at its end, its entries staying as they are, and a
\* file is entered in the ledger only when in that run its data was upserted
\* (ensureSchema returned true and upsertNew raised no error) or the file had no
\* data; a file whose ensureSchema or upsertNew failed in the run is not entered.
C10_LedgeredOnlyWhenUpsertedOrNoData ==
    [][ /\ Len(ledger') >= Len(ledger)
        /\ SubSeq(ledger', 1, Len(ledger)) = ledger
        /\ \A i \in (Len(ledger) + 1)..Len(ledger') :
              pipe.outcome[ledger'[i]] \in {"upserted", "nodata"} ]_vars

\* C12: when the measurement-upload stage of a run has ended, every file of the
\* stage's input has been processed in that run (its data extracted and, when there
\* is data, its schema reconciled and its rows upserted, with or without success):
\* a failure for one file does not keep the stage from the files after it.
C12_StageProcessesEveryFile ==
    pipe.pc \in {"returned", "raised"} =>
        \A f \in FileNames \ Ledgered : pipe.outcome[f] # "pending"

\* C13: no library call has returned while an engine or connection it acquired is
\* still open, whether the store raised an error in it or not.
C13_NoConnectionOpenAtReturn ==
    last.op \in {"ensureSchema", "upsertNew"} => last.open = {}

\* C20: when the store fails during ensureSchema or upsertNew, the call ends by
\* raising the error to its caller and not by returning a result, and the statement
\* that failed was issued once.
C20_StoreErrorPropagatedNotRetried ==
    [][ (\E op \in {"ensureSchema", "upsertNew"} : IsCall(op)) /\ last'.err =>
        /\ last'.exit = "raise"
        /\ \A i, j \in DOMAIN last'.ddl :
              i # j => last'.ddl[i].stmt # last'.ddl[j].stmt ]_vars

\* the keys of a writer's batch, and the stored rows that carry key k
KeysOfBatch(b) == {b.rows[i][DATA_TABLE_PK] : i \in DOMAIN b.rows}
RowsWithKey(tbl, k) ==
    LET S == {r \in BagToSet(tbl.rows) : r[DATA_TABLE_PK] = k}
        RECURSIVE Sum(_)
        Sum(T) == IF T = {} THEN 0
                  ELSE LET r == CHOOSE x \in T : TRUE IN CopiesIn(r, tbl.rows) + Sum(T \ {r})
    IN  Sum(S)

\* both writers read the keys while key k was in neither's result, and both appended
BothPassed(k) ==
    \A w \in Writers :
        /\ cc[w].pc = "done" /\ ~cc[w].none /\ cc[w].ret > 0
        /\ k \in KeysOfBatch(cc[w].batch)
        /\ k \notin cc[w].existing_tms

\* C14: when two concurrent upsertNew calls on a table without a key constraint
\* both read the existing keys before either appended, with a key in both batches
\* and not in the table, both pass the anti-join and both append, and the table
\* ends with at least two rows that carry that key.
C14_ConcurrentUpsertsDuplicateKey ==
    \A k \in TsVals :
        (BothPassed(k) /\ db[DataTable].pk = "") => RowsWithKey(db[DataTable], k) >= 2

\* C14 witness: the table was empty and had no primary key, both writers read, then
\* both appended their one row with the same key, and the table holds the key twice.
C14_Witness ==
    /\ db[DataTable].pk = ""
    /\ \A w \in Writers :
          /\ cc[w].pc = "done" /\ cc[w].ret = 1
          /\ cc[w].existing_tms = {}
          /\ KeysOfBatch(cc[w].batch) = {"t1"}
    /\ RowsWithKey(db[DataTable], "t1") = 2
    /\ BagCardinality(db[DataTable].rows) = 2

-----------------------------------------------------------------------------
(* Claims about the text functions, stated over the call recorded in doc.   *)

\* the rows of the file that have the string
RowsWith(needle) == {i \in DOMAIN doc.lines : Contains(doc.lines[i], needle)}
FirstOf(S) == CHOOSE i \in S : \A j \in S : i <= j

\* C16: search_param_txt gives the not-found result (-1, "") exactly when no
\* row of the file has the string in it, and otherwise the 1-based number of
\* the first row that has it.
C16_FindParamFirstRowOrSentinel ==
    doc.op = "search_param_txt" =>
        LET hits == RowsWith(doc.arg)
            r == doc.res.found
        IN  /\ (r = [row_num |-> -1, param_value |-> <<>>]) <=> (hits = {})
            /\ hits # {} => r.row_num = FirstOf(hits)

C16_Witness ==
    /\ doc.op = "search_param_txt"
    /\ Cardinality(RowsWith(doc.arg)) >= 2
    /\ 1 \notin RowsWith(doc.arg)
    /\ doc.res.found.row_num = FirstOf(RowsWith(doc.arg))

SiteNumber42 == <<"Site", " ", "Number", ":", " ", "4", "2">>

\* the line is the text with nothing but whitespace before and after it
IsPadded(line, text) ==
    \E a \in 0..Len(line) :
        /\ a + Len(text) <= Len(line)
        /\ SubSeq(line, a + 1, a + Len(text)) = text
        /\ \A i \in (1..a) \cup ((a + Len(text) + 1)..Len(line)) : line[i] \in Whitespace

\* C17 as stated: whenever some row of the file has "Site Number: 42" in it, a
\* search for "Site Number:" gives the value "42".
C17_SiteNumber42Anywhere ==
    (/\ doc.op = "search_param_txt"
     /\ doc.arg = <<"Site", " ", "Number", ":">>
     /\ RowsWith(SiteNumber42) # {})
    => doc.res.found.param_value = <<"4", "2">>

\* C17, amended: when the first row that has "Site Number:" in it is the text
\* "Site Number: 42" with nothing but whitespace around it, a search for
\* "Site Number:" gives the value "42".
C17_SiteNumber42FirstRowAlone ==
    (/\ doc.op = "search_param_txt"
     /\ doc.arg = <<"Site", " ", "Number", ":">>
     /\ RowsWith(doc.arg) # {}
     /\ IsPadded(doc.lines[FirstOf(RowsWith(doc.arg))], SiteNumber42))
    => doc.res.found.param_value = <<"4", "2">>

C17_Witness ==
    /\ doc.op = "search_param_txt"
    /\ doc.arg = <<"Site", " ", "Number", ":">>
    /\ RowsWith(doc.arg) # {}
    /\ FirstOf(RowsWith(doc.arg)) = 2
    /\ IsPadded(doc.lines[2], SiteNumber42)
    /\ doc.res.found = [row_num |-> 2, param_value |-> <<"4", "2">>]

\* a line that is empty once trimmed
IsBlank(line) == \A i \in DOMAIN line : line[i] \in Whitespace

\* the first row a parameter block is read from, and the rows of the block
BlockStart ==
    (IF doc.param_line = 0 THEN FirstOf(RowsWith(doc.arg)) ELSE doc.param_line) + doc.skip_rows
BlockStop == FirstOf({i \in BlockStart..Len(doc.lines) : IsBlank(doc.lines[i])})
BlockRows == BlockStart..(BlockStop - 1)

\* C18 as stated: the record has exactly as many keys as there are non-blank
\* lines between the start of reading and the first blank line.
C18_OneKeyPerLine ==
    (doc.op = "get_params_from_txt" /\ doc.res.kind = "frame")
    => Cardinality(DOMAIN doc.res.frame) = Cardinality(BlockRows)

\* C18, amended: the keys of the record are the names of the lines between the
\* start of reading and the first blank line, one key for each distinct name
\* (as many keys as lines when no two lines share a name), and the blank line
\* adds nothing to the record.
C18_OneKeyPerDistinctName ==
    (doc.op = "get_params_from_txt" /\ doc.res.kind = "frame")
    => /\ DOMAIN doc.res.frame = {ParamName(doc.lines[i]) : i \in BlockRows}
       /\ (\A i, j \in BlockRows : i # j => ParamName(doc.lines[i]) # ParamName(doc.lines[j]))
              => Cardinality(DOMAIN doc.res.frame) = Cardinality(BlockRows)
       /\ Cardinality(DOMAIN doc.res.frame) <= Cardinality(BlockRows)

C18_Witness ==
    /\ doc.op = "get_params_from_txt"
    /\ doc.res.kind = "frame"
    /\ doc.skip_rows = 1
    /\ Cardinality(BlockRows) = 2
    /\ Cardinality(DOMAIN doc.res.frame) = 2

\* C19: get_sensor_channels gives an empty result when no row has the header,
\* and otherwise, in increasing order, exactly the numbers of the rows after
\* the header row that have "Channel" and do not have "Data" in them.
C19_ChannelBlocksAfterHeader ==
    doc.op = "get_sensor_channels" =>
        LET ch == doc.res.channels
        IN  IF RowsWith(doc.arg) = {}
            THEN doc.res.kind = "empty" /\ ch = <<>>
            ELSE /\ doc.res.kind = "list"
                 /\ \A i, j \in DOMAIN ch : i < j => ch[i] < ch[j]
                 /\ {ch[i] : i \in DOMAIN ch} =
                        {n \in (FirstOf(RowsWith(doc.arg)) + 1)..Len(doc.lines) :
                            /\ Contains(doc.lines[n], <<"Channel">>)
                            /\ ~Contains(doc.lines[n], <<"Data">>)}

C19_Witness ==
    /\ doc.op = "get_sensor_channels"
    /\ doc.res.kind = "list"
    /\ Len(doc.res.channels) = 2
    /\ \E n \in (FirstOf(RowsWith(doc.arg)) + 1)..Len(doc.lines) :
          Contains(doc.lines[n], <<"Channel">>) /\ Contains(doc.lines[n], <<"Data">>)

-----------------------------------------------------------------------------
(* Claims about the job, stated over the run recorded in job.  job.ledger0  *)
(* is the set of names the ledger held when the run started, job.order the  *)
(* assets of the run in the order they finished.                            *)

\* C11: a file whose name is in the ledger when a run starts is not in the
\* unprocessed set of that run, which is the listed .rld files minus the
\* ledgered ones, and is neither copied, nor decrypted, nor upserted in it.
C11_LedgeredFilesExcluded ==
    /\ job.st["not_uploaded_files"] = "done"
          => job.not_uploaded = (job.raw_dir \cap {"a.rld", "b.rld"}) \ job.ledger0
    /\ \A f \in job.ledger0 :
          /\ job.st["copy_to_decrypt_dir"] = "done" => f \notin job.rld_dir
          /\ job.st["convert_rld_to_txt"] = "done" => TxtName(f) \notin job.txt_dir
          /\ job.st["upload_data_to_mmsql"] # "todo"
                => /\ pipe.outcome[f] = "none"
                   /\ \A i \in DOMAIN pipe.todo : pipe.todo[i] # f

C11_Witness ==
    /\ job.ledger0 = {"a.rld"}
    /\ job.raw_dir = {"a.rld", "b.rld", "notes.txt"}
    /\ job.st["upload_data_to_mmsql"] = "done"
    /\ job.not_uploaded = {"b.rld"}
    /\ pipe.outcome["b.rld"] = "upserted"
    /\ pipe.outcome["a.rld"] = "none"

\* the place of each asset in the order of stages: list, diff, copy, decrypt,
\* table names, measurement upsert, logger/sensor, ledger
StageOf(a) ==
    CASE a \in {"raw_dir_files", "uploaded_to_mssql_files"} -> 1
      [] a = "not_uploaded_files" -> 2
      [] a = "copy_to_decrypt_dir" -> 3
      [] a = "convert_rld_to_txt" -> 4
      [] a = "nrg_files_n_tables" -> 5
      [] a = "upload_data_to_mmsql" -> 6
      [] a = "logger_n_sensor_register" -> 7
      [] a = "save_rld_files" -> 8

\* C15: the stages of a run finish in the order list, diff, copy, decrypt,
\* table names, measurement upsert, logger/sensor, ledger; the ledger is
\* written only after the logger/sensor stage of the run has finished.
C15_LedgerAfterLoggerStage ==
    /\ \A i, j \in DOMAIN job.order :
          (i < j /\ "save_rld_files" \notin {job.order[i], job.order[j]})
              => StageOf(job.order[i]) <= StageOf(job.order[j])
    /\ Ledgered # job.ledger0 => job.st["logger_n_sensor_register"] = "done"

-----------------------------------------------------------------------------
(* Claims about where a parameter block starts.                             *)

\* the start row of a parameter block: the header row, or the row given
StartLine == IF doc.param_line = 0 THEN FirstOf(RowsWith(doc.arg)) ELSE doc.param_line

NamesOfRows(rows) == {ParamName(doc.lines[i]) : i \in rows \cap DOMAIN doc.lines}

-----------------------------------------------------------------------------
(* Claims about the decrypt stage, stated over job.conv: results holds the  *)
(* outcome of each call of the converter made in the run, in order.         *)

HasRld == job.rld_dir \cap {"a.rld", "b.rld"} # {}
Invocations == Len(job.conv.results)
Ended == job.conv.pc \in {"done", "read"}

\* what holds of the attempts whatever conv_max_att is: no call after a
\* successful one, a loop that cannot go past conv_max_att turns, an end that
\* is a normal one, and a later stage that reads the text files present
AttemptsWellFormed ==
    /\ \A i \in 1..Invocations : job.conv.results[i] = "ok" => i = Invocations
    /\ job.conv.pc = "loop"
          => /\ job.conv.attempt = Invocations + 1
             /\ job.conv.attempt <= job.conv.conv_max_att
             /\ ENABLED Conv_attempt
    /\ (Ended /\ Invocations > 0 /\ job.conv.results[Invocations] = "failed")
          => Invocations = job.conv.conv_max_att
    /\ job.conv.pc = "done" => ENABLED Conv_nrg_files_n_tables
    /\ job.conv.pc = "read"
          => \A i \in DOMAIN job.files_tables : TxtName(job.files_tables[i]) \in job.txt_dir

\* C22 as stated: with at least one .rld file in the work directory the
\* converter is called at least once and at most conv_max_att times, never
\* after a successful call, and the stage always ends, normally also when every
\* attempt failed, with the later stages reading the text files present.
C22_ConverterCalledOnceToMaxTimes ==
    /\ AttemptsWellFormed
    /\ (Ended /\ HasRld) => (Invocations >= 1 /\ Invocations <= job.conv.conv_max_att)

\* C22, amended: with at least one .rld file in the work directory the
\* converter is called at most conv_max_att times, at least once when
\* conv_max_att is 1 or more and not at all when it is 0 or less, never after a
\* successful call, and the stage always ends, normally also when every attempt
\* failed, with the later stages reading the text files present.
C22_ConverterCalledUpToMaxTimes ==
    /\ AttemptsWellFormed
    /\ (Ended /\ HasRld)
          => IF job.conv.conv_max_att >= 1
             THEN Invocations >= 1 /\ Invocations <= job.conv.conv_max_att
             ELSE Invocations = 0
    /\ (Ended /\ ~HasRld) => Invocations = 0

C22_Witness ==
    /\ job.conv.pc = "read"
    /\ HasRld
    /\ job.conv.conv_max_att = 3
    /\ job.conv.results = <<"failed", "ok">>
    /\ job.files_tables # <<>>

-----------------------------------------------------------------------------
(* Claims about the calls the pipeline makes for one batch: pipe.calls are  *)
(* the library calls of the last turn of the upload loop, job.calls those   *)
(* of the last turn of the logger and sensor loop.                          *)

\* in a turn, every upsertNew comes right after an ensureSchema of the same
\* table and batch that returned true, and no batch is upserted twice
UpsertOnlyAfterSchema(calls) ==
    /\ \A i \in DOMAIN calls :
          calls[i].op = "upsertNew"
              => /\ i > 1
                 /\ calls[i - 1].op = "ensureSchema"
                 /\ calls[i - 1].ok
                 /\ calls[i - 1].table = calls[i].table
                 /\ calls[i - 1].batch = calls[i].batch
    /\ \A i, j \in DOMAIN calls :
          (i # j /\ calls[i].op = "upsertNew" /\ calls[j].op = "upsertNew")
              => <<calls[i].table, calls[i].batch>> # <<calls[j].table, calls[j].batch>>

\* C23: for every batch the pipeline handles (measurement, logger, sensor),
\* upsertNew is called at most once, only after ensureSchema was called for the
\* same table and batch and returned true, and never after it returned false.
C23_UpsertOnlyAfterSchemaTrue ==
    UpsertOnlyAfterSchema(pipe.calls) /\ UpsertOnlyAfterSchema(job.calls)

C23_Witness ==
    /\ Len(pipe.calls) = 1
    /\ ~pipe.calls[1].ok
    /\ Len(job.calls) = 4
    /\ job.calls[2].op = "upsertNew" /\ job.calls[2].table = "NRG_Loggers"
    /\ job.calls[4].op = "upsertNew" /\ job.calls[4].table = "NRG_Sensors"

-----------------------------------------------------------------------------
(* Claims about the library under one writer.                               *)

\* C24: after any sequence of single-writer Mode A calls on a table that starts
\* with unique key values, no two rows of the table carry the same value of the
\* key column, also when one batch has the same key value in more than one row.
C24_ModeAKeepsKeysUnique ==
    \A k \in TsVals : RowsWithKey(db[DataTable], k) <= 1

\* C25: whenever ensureSchema returns false, also when the store fails part-way
\* through adding several columns, the table has the columns it had before the
\* call: no table was created and no column was added by the call.
C25_FalseLeavesSchemaUnchanged ==
    [][(IsCall("ensureSchema") /\ ~last'.ok)
          => /\ db'[last'.table].exists = db[last'.table].exists
             /\ db'[last'.table].cols = db[last'.table].cols]_vars

-----------------------------------------------------------------------------
(* Claims about what a run leaves in the ledger.                            *)

RunEnded == \A a \in Assets : job.st[a] = "done"

\* a run in which no store or ledger operation failed: the upload returned its
\* frame, no schema call or insert failed, and every row of the frame was
\* inserted into the ledger
CleanRun ==
    /\ RunEnded
    /\ pipe.pc = "returned"
    /\ \A f \in FileNames : pipe.outcome[f] \in {"none", "nodata", "upserted"}
    /\ \A i \in DOMAIN pipe.files_duckdb : pipe.files_duckdb[i] \in Ledgered

\* the files of the run whose decryption gave a text file that has a site number
WithTextAndSite ==
    {f \in job.not_uploaded :
        /\ TxtName(f) \in job.txt_dir
        /\ \E i \in DOMAIN job.files_tables : job.files_tables[i] = f}

\* C26 as stated: in a run where nothing fails, every file selected as
\* unprocessed at the start of the run is in the ledger at its end, also a file
\* with no site number in its text or with no text file.
C26_EverySelectedFileLedgered ==
    CleanRun => job.not_uploaded \subseteq Ledgered

\* C26, amended: in a run where nothing fails, a file selected as unprocessed at
\* the start of the run is in the ledger at its end exactly when its decryption
\* gave a text file that has a site number; when that is so for every selected
\* file, the next run over the same directory selects no file.
C26_SelectedFileLedgeredIffTextWithSite ==
    CleanRun
    => /\ \A f \in job.not_uploaded : f \in Ledgered <=> f \in WithTextAndSite
       /\ Ledgered \ job.ledger0 \subseteq job.not_uploaded
       /\ WithTextAndSite = job.not_uploaded
             => (job.raw_dir \cap {"a.rld", "b.rld"}) \ Ledgered = {}

C26_Witness ==
    /\ CleanRun
    /\ job.not_uploaded = {"a.rld", "b.rld"}
    /\ job.txt_dir = {"a_meas.txt", "b_meas.txt"}
    /\ job.files_tables = <<"a.rld">>
    /\ Ledgered = {"a.rld"}
    /\ pipe.outcome["a.rld"] = "upserted"

====
